---- MODULE Spec2Model ----
(***************************************************************************)
(* A model of helpers/benchmark.py: the log-file parser parse_log_file,    *)
(* the directory aggregator load_records_from_directory, the metric lookup *)
(* metric_for_benchmark and the two table filters trim_on_benchmark and    *)
(* filter_full_lifecycle.                                                  *)
(*                                                                         *)
(* Python values are tagged records ([t |-> "str", s |-> ...]); a Python   *)
(* str is the sequence of its characters, so that lower(), replace(),      *)
(* str(), int() and the "in" operator are computed and not tabulated.  A   *)
(* dict is a function from its keys (TLA+ strings) to values.              *)
(***************************************************************************)
EXTENDS Integers, Sequences, FiniteSets, TLC

VARIABLES
    dir,            \* what os.walk(log_dir) yields: a sequence of (root, file, content)
    idx,            \* number of walk entries consumed so far
    pc,             \* position of load_records_from_directory / parse_log_file
    lines,          \* parse_log_file: f.readlines()
    i,              \* parse_log_file: number of lines consumed so far
    timestamp, provider, region, memory, function, parallel, iterations, retries,
    records,        \* parse_log_file: records
    cpu_field,      \* parse_log_file: the CPU label before shorten_cpu_name
    all_records,    \* load_records_from_directory: all_records
    table,          \* the DataFrame load_records_from_directory returns
    exception,      \* the exception that escaped, "none" while there is none
    stdout,         \* the diagnostics printed so far
    df,             \* the table handed to trim_on_benchmark / filter_full_lifecycle
    group_on_timestamp, benchmark, remove_cold,     \* their other arguments
    result,         \* the table they return
    called          \* which of them has returned: "none", "trim", "lifecycle"

parseVars == <<dir, idx, pc, lines, i, timestamp, provider, region, memory, function,
               parallel, iterations, retries, records, cpu_field, all_records, table,
               exception, stdout>>
tableVars == <<df, group_on_timestamp, benchmark, remove_cold, result, called>>
vars == <<parseVars, tableVars>>

----------------------------------------------------------------------------
(* Bounds of the model *)

MaxLines == 2           \* invocation lines per log file (Spec)
MaxFiles == 2           \* walk entries per directory (SpecDir)
MaxDirLines == 1        \* invocation lines per log file (SpecDir)
MaxTrimRows == 3        \* rows of the table handed to trim_on_benchmark
MaxLifeRows == 5        \* rows of the table handed to filter_full_lifecycle

----------------------------------------------------------------------------
(* Python values *)

PyNone == [t |-> "None"]
PyNaN == [t |-> "NaN"]
PyInt(n) == [t |-> "int", n |-> n]
PyStr(s) == [t |-> "str", s |-> s]
PyList(l) == [t |-> "list", l |-> l]
PyDict(d) == [t |-> "dict", d |-> d]
PyBool(b) == [t |-> "bool", b |-> b]
PyDatetime(n) == [t |-> "datetime", n |-> n]
EmptyDict == PyDict(<<>>)

Ok(v) == [exc |-> "none", v |-> v]
Raise(e) == [exc |-> e, v |-> PyNone]

s_unknown == <<"u","n","k","n","o","w","n">>
s_gcp == <<"g","c","p">>
s_aws == <<"a","w","s">>
s_azure == <<"a","z","u","r","e">>
s_alibaba == <<"a","l","i","b","a","b","a">>
s_AMD == <<"A","M","D">>
s_None == <<"N","o","n","e">>
s_Z == <<"Z">>
s_utc == <<"+","0","0",":","0","0">>
s_gemm == <<"g","e","m","m">>
s_aesCtr == <<"a","e","s","C","t","r">>
s_gzip == <<"g","z","i","p">>
s_sha256 == <<"s","h","a","2","5","6">>
s_json == <<"j","s","o","n">>

Digits == <<"0","1","2","3","4","5","6","7","8","9">>
Upper == <<"A","B","C","D","E","F","G","H","I","J","K","L","M",
           "N","O","P","Q","R","S","T","U","V","W","X","Y","Z">>
Lower == <<"a","b","c","d","e","f","g","h","i","j","k","l","m",
           "n","o","p","q","r","s","t","u","v","w","x","y","z">>

\* str.lower()
lower(s) ==
    [k \in 1..Len(s) |->
        IF \E u \in 1..26 : Upper[u] = s[k]
        THEN Lower[CHOOSE u \in 1..26 : Upper[u] = s[k]]
        ELSE s[k]]

\* sub in s, for two str
Contains(sub, s) ==
    \E k \in 1..(Len(s) - Len(sub) + 1) : SubSeq(s, k, k + Len(sub) - 1) = sub

\* s.replace(old, new) for a one-character old
RECURSIVE replace(_, _, _)
replace(s, old, new) ==
    IF s = <<>> THEN <<>>
    ELSE (IF <<Head(s)>> = old THEN new ELSE <<Head(s)>>) \o replace(Tail(s), old, new)

\* str(n) of a non-negative int
RECURSIVE IntToStr(_)
IntToStr(n) ==
    IF n < 10 THEN <<Digits[n + 1]>> ELSE IntToStr(n \div 10) \o <<Digits[(n % 10) + 1]>>

\* str(v), as called on body.get("cpuModel", "unknown") and by the f-string
str(v) ==
    CASE v.t = "str" -> v.s
      [] v.t = "int" -> IF v.n < 0 THEN <<"-">> \o IntToStr(-v.n) ELSE IntToStr(v.n)
      [] OTHER -> s_None

IsDigits(s) == s # <<>> /\ \A k \in 1..Len(s) : \E d \in 1..10 : Digits[d] = s[k]

RECURSIVE StrToInt(_)
StrToInt(s) ==
    IF s = <<>> THEN 0
    ELSE 10 * StrToInt(SubSeq(s, 1, Len(s) - 1))
         + (CHOOSE d \in 0..9 : Digits[d + 1] = s[Len(s)])

\* int(v): a decimal str or an int converts, any other str is a ValueError,
\* None, list and dict are a TypeError
int(v) ==
    CASE v.t = "int" -> Ok(v.n)
      [] v.t = "str" -> IF IsDigits(v.s) THEN Ok(StrToInt(v.s)) ELSE Raise("ValueError")
      [] OTHER -> Raise("TypeError")

\* bool(v), as taken by "cpu_frequency_mhz and ..."
Truthy(v) ==
    CASE v.t = "None" -> FALSE
      [] v.t = "int" -> v.n # 0
      [] v.t = "bool" -> v.b
      [] v.t = "str" -> v.s # <<>>
      [] v.t = "list" -> v.l # <<>>
      [] v.t = "dict" -> DOMAIN v.d # {}
      [] OTHER -> TRUE

\* d.get(k, default) of a dict d
Get(d, k, default) == IF k \in DOMAIN d.d THEN d.d[k] ELSE default

\* v[k] for a str key k: the entry of a dict, a KeyError when it has none, a
\* TypeError on every other value
Subscript(v, k) ==
    IF v.t = "dict"
    THEN (IF k \in DOMAIN v.d THEN Ok(v.d[k]) ELSE Raise("KeyError"))
    ELSE Raise("TypeError")

\* record[k] = v
Put(record, k, v) == (k :> v) @@ record

\* json.loads(line): a line of text is represented by what it parses to, or
\* by the fact that it does not parse
BadJson == [json |-> FALSE, v |-> PyNone]
Json(v) == [json |-> TRUE, v |-> v]
json_loads(line) == IF line.json THEN Ok(line.v) ELSE Raise("JSONDecodeError")

\* datetime.fromisoformat(s): the ISO-8601 strings of the model's inputs, each
\* with the day it denotes; any other string is a ValueError
IsoFormats ==
    << [s |-> <<"2","0","2","4","-","0","5","-","0","1","T","1","0",":","0","0",":","0","0","+","0","0",":","0","0">>, n |-> 1],
       [s |-> <<"2","0","2","4","-","0","5","-","0","2">>, n |-> 2] >>
fromisoformat(s) ==
    IF \E k \in 1..Len(IsoFormats) : IsoFormats[k].s = s
    THEN Ok(PyDatetime(IsoFormats[CHOOSE k \in 1..Len(IsoFormats) : IsoFormats[k].s = s].n))
    ELSE Raise("ValueError")

----------------------------------------------------------------------------
(* parse_log_file: the metadata line *)

NoMeta(e) ==
    [exc |-> e, timestamp |-> PyNone, provider |-> PyNone, region |-> PyNone,
     memory |-> PyNone, function |-> PyNone, parallel |-> PyNone,
     iterations |-> PyNone, retries |-> PyNone]

\* (mutant) no fallback for a metadata line without provider
default_provider_empty == PyStr(<<>>)

\* Line 32: the provider of a metadata line that names none
default_provider == PyStr(s_unknown)

\* Lines 24-38: json.loads of line 0 and the eight values taken from it.  exc
\* is "none" or the first exception raised, in the order of the statements.
parse_metadata(line) ==
    LET loaded == json_loads(line) IN
    IF loaded.exc # "none" THEN NoMeta(loaded.exc) ELSE
    LET meta == loaded.v
        ts == Subscript(meta, "timestamp") IN
    IF ts.exc # "none" THEN NoMeta(ts.exc) ELSE
    IF ts.v.t # "str" THEN NoMeta("AttributeError") ELSE        \* .replace
    LET dt == fromisoformat(replace(ts.v.s, s_Z, s_utc)) IN
    IF dt.exc # "none" THEN NoMeta(dt.exc) ELSE
    LET prov == Get(meta, "provider", default_provider) IN
    IF prov.t # "str" THEN NoMeta("AttributeError") ELSE        \* .lower
    LET mem == int(Get(meta, "memorySize", PyStr(s_unknown))) IN
    IF mem.exc # "none" THEN NoMeta(mem.exc) ELSE
    LET par == int(Get(meta, "parallel-requests", PyInt(0))) IN
    IF par.exc # "none" THEN NoMeta(par.exc) ELSE
    LET ite == int(Get(meta, "iterationsPerBenchmark", PyInt(0))) IN
    IF ite.exc # "none" THEN NoMeta(ite.exc) ELSE
    LET ret == int(Get(meta, "retries", PyInt(0))) IN
    IF ret.exc # "none" THEN NoMeta(ret.exc) ELSE
    [exc |-> "none",
     timestamp |-> dt.v,
     provider |-> PyStr(lower(prov.s)),
     region |-> Get(meta, "region", PyStr(s_unknown)),
     memory |-> PyInt(mem.v),
     function |-> Get(meta, "function", PyStr(s_unknown)),
     parallel |-> PyInt(par.v),
     iterations |-> PyInt(ite.v),
     retries |-> PyInt(ret.v)]

----------------------------------------------------------------------------
(* parse_log_file: one invocation line *)

GCP_CPU_MAPPING ==
    << [k |-> <<"1">>,         v |-> <<"M","o","d","e","l"," ","1"," ","(","A","M","D",")">>],
       [k |-> <<"1","7">>,     v |-> <<"M","o","d","e","l"," ","1","7"," ","(","A","M","D",")">>],
       [k |-> <<"8","5">>,     v |-> <<"M","o","d","e","l"," ","8","5"," ","(","I","n","t","e","l",")">>],
       [k |-> <<"1","0","6">>, v |-> <<"M","o","d","e","l"," ","1","0","6"," ","(","I","n","t","e","l",")">>],
       [k |-> <<"1","4","3">>, v |-> <<"M","o","d","e","l"," ","1","4","3"," ","(","I","n","t","e","l",")">>],
       [k |-> <<"1","7","3">>, v |-> <<"M","o","d","e","l"," ","1","7","3"," ","(","I","n","t","e","l",")">>] >>

\* Lines 50-62: GCP_CPU_MAPPING.get(str(model), f"Model {model} (Unknown)")
gcp_cpu_field(body) ==
    LET model == Get(body, "cpuModel", PyStr(s_unknown)) IN
    IF \E k \in 1..Len(GCP_CPU_MAPPING) : GCP_CPU_MAPPING[k].k = str(model)
    THEN GCP_CPU_MAPPING[CHOOSE k \in 1..Len(GCP_CPU_MAPPING) :
                             GCP_CPU_MAPPING[k].k = str(model)].v
    ELSE <<"M","o","d","e","l"," ">> \o str(model)
         \o <<" ","(","U","n","k","n","o","w","n",")">>

\* Line 64: "AMD" in cpu_field; a TypeError when cpu_field is no container
amd_in(cpu) ==
    CASE cpu.t = "str" -> Ok(Contains(s_AMD, cpu.s))
      [] cpu.t = "list" -> Ok(\E k \in 1..Len(cpu.l) : cpu.l[k] = PyStr(s_AMD))
      [] cpu.t = "dict" -> Ok("AMD" \in DOMAIN cpu.d)
      [] OTHER -> Raise("TypeError")

\* (mutant) the bands without their lower ends
amd_cpu_field_exclusive(freq) ==
    IF ~Truthy(freq) THEN Ok(<<"A","M","D"," ","E","P","Y","C"," ","u","n","k","n","o","w","n">>)
    ELSE IF freq.t = "bool" THEN Ok(<<"A","M","D"," ","E","P","Y","C"," ","u","n","k","n","o","w","n">>)
    ELSE IF freq.t # "int" THEN Raise("TypeError")
    ELSE IF freq.n > 2640 /\ freq.n <= 2660
         THEN Ok(<<"A","M","D"," ","E","P","Y","C"," ","2",".","6","5","G","H","z">>)
    ELSE IF freq.n > 2240 /\ freq.n <= 2260
         THEN Ok(<<"A","M","D"," ","E","P","Y","C"," ","2",".","2","5","G","H","z">>)
    ELSE Ok(<<"A","M","D"," ","E","P","Y","C"," ","u","n","k","n","o","w","n">>)

\* Lines 65-71: the frequency bands of an AMD CPU on AWS.  A truthy frequency
\* is compared to 2640, which is a TypeError unless it is a number (True is the
\* number 1).
amd_cpu_field(freq) ==
    IF ~Truthy(freq) THEN Ok(<<"A","M","D"," ","E","P","Y","C"," ","u","n","k","n","o","w","n">>)
    ELSE IF freq.t = "bool" THEN Ok(<<"A","M","D"," ","E","P","Y","C"," ","u","n","k","n","o","w","n">>)
    ELSE IF freq.t # "int" THEN Raise("TypeError")
    ELSE IF freq.n >= 2640 /\ freq.n <= 2660
         THEN Ok(<<"A","M","D"," ","E","P","Y","C"," ","2",".","6","5","G","H","z">>)
    ELSE IF freq.n >= 2240 /\ freq.n <= 2260
         THEN Ok(<<"A","M","D"," ","E","P","Y","C"," ","2",".","2","5","G","H","z">>)
    ELSE Ok(<<"A","M","D"," ","E","P","Y","C"," ","u","n","k","n","o","w","n">>)

\* helpers/cpus.py, shorten_cpu_name: a fixed table of known names, every
\* other string passes through unchanged.  The table's content is not part of
\* benchmark.py; one entry stands for it.
KnownCpuNames ==
    << [raw |-> <<"I","n","t","e","l","(","R",")"," ","X","e","o","n","(","R",")">>,
        short |-> <<"I","n","t","e","l"," ","X","e","o","n">>] >>
shorten_cpu_name(s) ==
    IF \E k \in 1..Len(KnownCpuNames) : KnownCpuNames[k].raw = s
    THEN KnownCpuNames[CHOOSE k \in 1..Len(KnownCpuNames) : KnownCpuNames[k].raw = s].short
    ELSE s

\* (mutant) the AMD bands applied whatever the provider is
resolve_cpu_field_any_provider(prov, body) ==
    LET cpu0 == Get(body, "cpuType", PyStr(s_unknown))
        freq == Get(body, "cpuFrequencyMHz", PyNone)
        cpu1 == IF prov = PyStr(s_gcp) THEN PyStr(gcp_cpu_field(body)) ELSE cpu0
        amd == amd_in(cpu1) IN
    IF amd.exc # "none" THEN [exc |-> amd.exc, cpu |-> cpu1, out |-> <<>>] ELSE
    IF ~amd.v THEN [exc |-> "none", cpu |-> cpu1, out |-> <<>>] ELSE
    LET label == amd_cpu_field(freq) IN
    IF label.exc # "none" THEN [exc |-> label.exc, cpu |-> cpu1, out |-> <<>>] ELSE
    [exc |-> "none", cpu |-> PyStr(label.v), out |-> <<>>]

\* Lines 46-71: the CPU label before normalization.  cpu is the value of the
\* local cpu_field when the block is left, out what it printed.
resolve_cpu_field(prov, body) ==
    LET cpu0 == Get(body, "cpuType", PyStr(s_unknown))
        freq == Get(body, "cpuFrequencyMHz", PyNone)
        cpu1 == IF prov = PyStr(s_gcp) THEN PyStr(gcp_cpu_field(body)) ELSE cpu0
        amd == amd_in(cpu1) IN
    IF amd.exc # "none" THEN [exc |-> amd.exc, cpu |-> cpu1, out |-> <<>>] ELSE
    IF ~(amd.v /\ prov = PyStr(s_aws)) THEN [exc |-> "none", cpu |-> cpu1, out |-> <<>>] ELSE
    LET label == amd_cpu_field(freq) IN
    IF label.exc # "none" THEN [exc |-> label.exc, cpu |-> cpu1, out |-> <<>>] ELSE
    [exc |-> "none", cpu |-> PyStr(label.v),
     out |-> IF label.v = <<"A","M","D"," ","E","P","Y","C"," ","u","n","k","n","o","w","n">>
             THEN <<"unknown AMD CPU frequency">> ELSE <<>>]

\* Lines 73-103: the fields every record has
common_fields(m, body, benchmark_, cpu) ==
    [timestamp |-> m.timestamp,
     provider |-> m.provider,
     region |-> m.region,
     function |-> m.function,
     memory_size_mb |-> m.memory,
     parallel_requests |-> m.parallel,
     iterations_per_benchmark |-> m.iterations,
     retries |-> m.retries,
     cpu_type |-> PyStr(shorten_cpu_name(cpu.s)),
     cpu_model_number |-> Get(body, "cpuModel", PyStr(s_unknown)),
     runtime_ms |-> Get(body, "runtime", PyNone),
     user_runtime_ms |-> Get(body, "userRuntime", PyNone),
     framework_runtime_ms |-> Get(body, "frameworkRuntime", PyNone),
     container_id |-> Get(body, "containerID", PyStr(s_unknown)),
     new_container |-> Get(body, "newcontainer", PyNone),
     invocation_count |-> Get(body, "invocationCount", PyNone),
     instance_id |-> Get(body, "instanceId", PyStr(s_unknown)),
     uuid |-> Get(body, "uuid", PyStr(s_unknown)),
     benchmark_type |-> Get(benchmark_, "type", PyStr(s_unknown)),
     flags |-> Get(body, "cpuFlags", PyList(<<>>)),
     cpu_frequency |-> Get(body, "cpuFrequencyMHz", PyNone)]

\* Lines 105-115: the request id of the record's provider.  header.get is
\* only called for the four known providers.
request_id_key(prov) ==
    CASE prov = PyStr(s_azure) -> "azure_invocation_id"
      [] prov = PyStr(s_gcp) -> "gcp_execution_id"
      [] prov = PyStr(s_aws) -> "aws_request_id"
      [] prov = PyStr(s_alibaba) -> "alibaba_request_id"
      [] OTHER -> "none"
\* (mutant) the aws branch reads the alibaba header entry
header_key_aws_ali(prov) ==
    CASE prov = PyStr(s_azure) -> "azure-invocation-id"
      [] prov = PyStr(s_gcp) -> "function-execution-id"
      [] prov = PyStr(s_aws) -> "ali-request-id"
      [] prov = PyStr(s_alibaba) -> "ali-request-id"
      [] OTHER -> "none"
header_key(prov) ==
    CASE prov = PyStr(s_azure) -> "azure-invocation-id"
      [] prov = PyStr(s_gcp) -> "function-execution-id"
      [] prov = PyStr(s_aws) -> "aws-request-id"
      [] prov = PyStr(s_alibaba) -> "ali-request-id"
      [] OTHER -> "none"
add_request_id(record, prov, header) ==
    IF request_id_key(prov) = "none" THEN Ok(record)
    ELSE IF header.t # "dict" THEN Raise("AttributeError")
    ELSE Ok(Put(record, request_id_key(prov), Get(header, header_key(prov), PyStr(s_unknown))))

\* (mutant) the last branch taken for every type that is none of the first four
add_benchmark_fields_else_json(record, benchmark_) ==
    LET type == Get(benchmark_, "type", PyNone) IN
    IF type = PyStr(s_gemm) THEN
        Put(Put(record, "matrix_size", Get(benchmark_, "matrixSize", PyNone)),
            "multiplication_time_ms", Get(benchmark_, "multiplicationTimeMs", PyNone))
    ELSE IF type = PyStr(s_aesCtr) THEN
        Put(Put(Put(record, "key_size", Get(benchmark_, "keySize", PyNone)),
                "encrypt_size_mb", Get(benchmark_, "encryptSizeMB", PyNone)),
            "encrypt_time_ms", Get(benchmark_, "encryptTimeMs", PyNone))
    ELSE IF type = PyStr(s_gzip) THEN
        Put(Put(record, "compress_size_mb", Get(benchmark_, "compressSizeMB", PyNone)),
            "compress_time_ms", Get(benchmark_, "compressTimeMS", PyNone))
    ELSE IF type = PyStr(s_sha256) THEN
        Put(Put(record, "hash_size_mb", Get(benchmark_, "hashSizeMB", PyNone)),
            "hash_time_ms", Get(benchmark_, "hashTimeMs", PyNone))
    ELSE Put(record, "json_time_ms", Get(benchmark_, "jsonTimeMs", PyNone))

\* Lines 120-138: the fields of the record's benchmark type
add_benchmark_fields(record, benchmark_) ==
    LET type == Get(benchmark_, "type", PyNone) IN
    IF type = PyStr(s_gemm) THEN
        Put(Put(record, "matrix_size", Get(benchmark_, "matrixSize", PyNone)),
            "multiplication_time_ms", Get(benchmark_, "multiplicationTimeMs", PyNone))
    ELSE IF type = PyStr(s_aesCtr) THEN
        Put(Put(Put(record, "key_size", Get(benchmark_, "keySize", PyNone)),
                "encrypt_size_mb", Get(benchmark_, "encryptSizeMB", PyNone)),
            "encrypt_time_ms", Get(benchmark_, "encryptTimeMs", PyNone))
    ELSE IF type = PyStr(s_gzip) THEN
        Put(Put(record, "compress_size_mb", Get(benchmark_, "compressSizeMB", PyNone)),
            "compress_time_ms", Get(benchmark_, "compressTimeMS", PyNone))
    ELSE IF type = PyStr(s_sha256) THEN
        Put(Put(record, "hash_size_mb", Get(benchmark_, "hashSizeMB", PyNone)),
            "hash_time_ms", Get(benchmark_, "hashTimeMs", PyNone))
    ELSE IF type = PyStr(s_json) THEN
        Put(record, "json_time_ms", Get(benchmark_, "jsonTimeMs", PyNone))
    ELSE record

NoRecord(e, cpu, out) == [exc |-> e, record |-> <<>>, cpu |-> cpu, out |-> out]

\* Lines 42-148: the body of the loop for one line, m being the values taken
\* from the metadata line and cpu_ the local cpu_field before.  exc is "none"
\* when the line's record was appended, else the exception that made the line
\* be skipped; cpu is the local cpu_field afterwards; out is what was printed
\* (nothing for a JSONDecodeError, the error for any other exception).
parse_line(m, line, cpu_) ==
    LET err == <<"error parsing line">>
        data == json_loads(line) IN
    IF data.exc # "none" THEN NoRecord(data.exc, cpu_, <<>>) ELSE
    LET b == Subscript(data.v, "body") IN
    IF b.exc # "none" THEN NoRecord(b.exc, cpu_, err) ELSE
    LET body == b.v IN
    IF body.t # "dict" THEN NoRecord("AttributeError", cpu_, err) ELSE   \* body.get
    LET benchmark_ == Get(body, "benchmark", EmptyDict)
        cpu == resolve_cpu_field(m.provider, body) IN
    IF cpu.exc # "none" THEN NoRecord(cpu.exc, cpu.cpu, cpu.out \o err) ELSE
    IF cpu.cpu.t # "str" THEN NoRecord("TypeError", cpu.cpu, cpu.out \o err) ELSE
    IF benchmark_.t # "dict" THEN NoRecord("AttributeError", cpu.cpu, cpu.out \o err) ELSE
    LET record == common_fields(m, body, benchmark_, cpu.cpu)
        header == Get(data.v, "header", EmptyDict)
        withId == add_request_id(record, m.provider, header) IN
    IF withId.exc # "none" THEN NoRecord(withId.exc, cpu.cpu, cpu.out \o err) ELSE
    [exc |-> "none",
     record |-> add_benchmark_fields(withId.v, benchmark_),
     cpu |-> cpu.cpu,
     out |-> cpu.out \o (IF request_id_key(m.provider) = "none"
                         THEN <<"unknown provider">> ELSE <<>>)]

----------------------------------------------------------------------------
(* parse_log_file and load_records_from_directory: the steps *)

\* Line 222: "logs" in root.split(os.sep); root is given by its components
in_logs(root) == \E k \in 1..Len(root) : root[k] = "logs"

\* Line 225: file.endswith(".log")
endswith_log(file) ==
    Len(file) >= 4 /\ SubSeq(file, Len(file) - 3, Len(file)) = <<".","l","o","g">>

\* pd.DataFrame(all_records): the columns are the union of the records' keys
\* and a record without a column has NaN in it
DataFrame(recs) ==
    LET columns == UNION {DOMAIN recs[k] : k \in 1..Len(recs)} IN
    [k \in 1..Len(recs) |->
        [c \in columns |-> IF c \in DOMAIN recs[k] THEN recs[k][c] ELSE PyNaN]]

\* (mutant) only a line that is no JSON is skipped
append_unless_json_error(recs, r) ==
    IF r.exc = "JSONDecodeError" THEN recs ELSE Append(recs, r.record)

\* Lines 141-148: a line's record is appended, a line that raised is skipped
append_or_skip(recs, r) == IF r.exc = "none" THEN Append(recs, r.record) ELSE recs

\* Lines 26-28 against the statements after them: only a JSONDecodeError of
\* line 0 is caught, every other exception of lines 25-38 leaves parse_log_file
metadata_caught(e) == e = "JSONDecodeError"

\* Lines 221-226 and 17-19: the next (root, file) of the walk; a file under a
\* logs directory or without the .log suffix is passed over, any other is opened
\* and read
NextEntry ==
    /\ pc = "walk"
    /\ idx < Len(dir)
    /\ idx' = idx + 1
    /\ IF in_logs(dir[idx + 1].root) \/ ~endswith_log(dir[idx + 1].file)
       THEN UNCHANGED <<pc, lines, records, i>>
       ELSE /\ pc' = "open"
            /\ lines' = dir[idx + 1].content
            /\ records' = <<>>
            /\ i' = 0
    /\ UNCHANGED <<dir, timestamp, provider, region, memory, function, parallel,
                   iterations, retries, cpu_field, all_records, table, exception, stdout>>
    /\ UNCHANGED tableVars

\* Lines 20-38: an empty file and an undecodable metadata line return [], any
\* other exception of the metadata leaves parse_log_file and, uncaught in
\* load_records_from_directory, the run
ParseMetadata ==
    /\ pc = "open"
    /\ IF lines = <<>>
       THEN /\ pc' = "return"
            /\ UNCHANGED <<i, timestamp, provider, region, memory, function, parallel,
                           iterations, retries, exception, stdout>>
       ELSE LET m == parse_metadata(lines[1]) IN
            IF m.exc = "none"
            THEN /\ timestamp' = m.timestamp
                 /\ provider' = m.provider
                 /\ region' = m.region
                 /\ memory' = m.memory
                 /\ function' = m.function
                 /\ parallel' = m.parallel
                 /\ iterations' = m.iterations
                 /\ retries' = m.retries
                 /\ i' = 1
                 /\ pc' = IF Len(lines) > 1 THEN "loop" ELSE "return"
                 /\ UNCHANGED <<exception, stdout>>
            ELSE IF metadata_caught(m.exc)
            THEN /\ stdout' = Append(stdout, "invalid metadata line")
                 /\ pc' = "return"
                 /\ UNCHANGED <<i, timestamp, provider, region, memory, function,
                                parallel, iterations, retries, exception>>
            ELSE /\ exception' = m.exc
                 /\ pc' = "raised"
                 /\ UNCHANGED <<i, timestamp, provider, region, memory, function,
                                parallel, iterations, retries, stdout>>
    /\ UNCHANGED <<dir, idx, lines, records, cpu_field, all_records, table>>
    /\ UNCHANGED tableVars

\* Lines 31-38: the locals set from the metadata line
Locals ==
    [timestamp |-> timestamp, provider |-> provider, region |-> region, memory |-> memory,
     function |-> function, parallel |-> parallel, iterations |-> iterations,
     retries |-> retries]

\* Lines 41-148: one iteration of the loop over lines[1:]
ParseLine ==
    /\ pc = "loop"
    /\ LET r == parse_line(Locals, lines[i + 1], cpu_field) IN
        /\ records' = append_or_skip(records, r)
        /\ cpu_field' = r.cpu
        /\ stdout' = stdout \o r.out
    /\ i' = i + 1
    /\ pc' = IF i + 1 < Len(lines) THEN "loop" ELSE "return"
    /\ UNCHANGED <<dir, idx, lines, timestamp, provider, region, memory, function,
                   parallel, iterations, retries, all_records, table, exception>>
    /\ UNCHANGED tableVars

\* Lines 21, 28, 150 and 227-228: parse_log_file returns and its records are
\* added to all_records
Return ==
    /\ pc = "return"
    /\ all_records' = all_records \o records
    /\ pc' = "walk"
    /\ UNCHANGED <<dir, idx, lines, i, timestamp, provider, region, memory, function,
                   parallel, iterations, retries, records, cpu_field, table, exception,
                   stdout>>
    /\ UNCHANGED tableVars

\* Line 230: the walk is over
Finish ==
    /\ pc = "walk"
    /\ idx = Len(dir)
    /\ table' = DataFrame(all_records)
    /\ pc' = "done"
    /\ UNCHANGED <<dir, idx, lines, i, timestamp, provider, region, memory, function,
                   parallel, iterations, retries, records, cpu_field, all_records,
                   exception, stdout>>
    /\ UNCHANGED tableVars

Next == NextEntry \/ ParseMetadata \/ ParseLine \/ Return \/ Finish

----------------------------------------------------------------------------
(* The inputs: metadata lines, invocation lines and directories *)

ts_Z == PyStr(<<"2","0","2","4","-","0","5","-","0","1","T","1","0",":","0","0",":","0","0","Z">>)
ts_date == PyStr(<<"2","0","2","4","-","0","5","-","0","2">>)

\* Metadata lines that parse
ValidMetaLines ==
    << Json(PyDict([timestamp |-> ts_Z, provider |-> PyStr(<<>>), memorySize |-> PyInt(512)])),
       Json(PyDict(("parallel-requests" :> PyStr(<<"4">>)) @@
                   [timestamp |-> ts_Z, provider |-> PyStr(<<"A","W","S">>), region |-> PyStr(<<"e","u">>),
                    memorySize |-> PyInt(512), function |-> PyStr(<<"f","n">>),
                    iterationsPerBenchmark |-> PyInt(3), retries |-> PyInt(1)])),
       Json(PyDict([timestamp |-> ts_date, provider |-> PyStr(<<"g","c","p">>), memorySize |-> PyStr(<<"1","0","2","4">>)])),
       Json(PyDict([timestamp |-> ts_Z, provider |-> PyStr(<<"A","z","u","r","e">>), memorySize |-> PyInt(512)])),
       Json(PyDict([timestamp |-> ts_Z, provider |-> PyStr(<<"a","l","i","b","a","b","a">>), memorySize |-> PyInt(512)])),
       Json(PyDict([timestamp |-> ts_Z, memorySize |-> PyInt(512)])),
       Json(PyDict([timestamp |-> ts_Z, provider |-> PyStr(<<"i","b","m">>), memorySize |-> PyInt(512)])) >>

\* Metadata lines that do not: not JSON, no JSON object, no or no usable
\* timestamp, no or no numeric memorySize, a provider that is no string
FailingMetaLines ==
    << BadJson,
       Json(PyList(<<PyInt(1)>>)),
       Json(PyDict([provider |-> PyStr(<<"a","w","s">>), memorySize |-> PyInt(512)])),
       Json(PyDict([timestamp |-> PyStr(<<"t","o","d","a","y">>), provider |-> PyStr(<<"a","w","s">>), memorySize |-> PyInt(512)])),
       Json(PyDict([timestamp |-> ts_Z, provider |-> PyStr(<<"a","w","s">>)])),
       Json(PyDict([timestamp |-> ts_Z, provider |-> PyStr(<<"a","w","s">>), memorySize |-> PyStr(<<"b","i","g">>)])),
       Json(PyDict([timestamp |-> ts_Z, provider |-> PyNone, memorySize |-> PyInt(512)])) >>

MetaLines == ValidMetaLines \o FailingMetaLines

HeaderAll ==
    PyDict(("azure-invocation-id" :> PyStr(<<"a","z","1">>)) @@ ("function-execution-id" :> PyStr(<<"f","e","1">>)) @@
           ("aws-request-id" :> PyStr(<<"a","w","1">>)) @@ ("ali-request-id" :> PyStr(<<"a","l","1">>)))

Telemetry ==
    [runtime |-> PyInt(12), userRuntime |-> PyInt(10), frameworkRuntime |-> PyInt(2),
     containerID |-> PyStr(<<"c","1">>), newcontainer |-> PyBool(TRUE), invocationCount |-> PyInt(1),
     instanceId |-> PyStr(<<"i","1">>), uuid |-> PyStr(<<"u","1">>), cpuFlags |-> PyList(<<PyStr(<<"a","v","x">>)>>)]

s_AMD_EPYC == <<"A","M","D"," ","E","P","Y","C">>
s_xAMDx == <<"x","A","M","D","x">>
s_Intel_raw == <<"I","n","t","e","l","(","R",")"," ","X","e","o","n","(","R",")">>

InvocationLine(header, body) == Json(PyDict([header |-> header, body |-> PyDict(body)]))

InvocationLines ==
    << BadJson,
       Json(PyList(<<PyInt(1)>>)),
       Json(PyDict([header |-> HeaderAll])),
       Json(PyDict([header |-> HeaderAll, body |-> PyStr(<<"o","o","p","s">>)])),
       InvocationLine(HeaderAll,
           [cpuType |-> PyStr(s_AMD_EPYC), cpuFrequencyMHz |-> PyInt(2650), cpuModel |-> PyStr(<<"8","5">>),
            benchmark |-> PyDict([type |-> PyStr(s_gemm), matrixSize |-> PyInt(64),
                                  multiplicationTimeMs |-> PyInt(7)])] @@ Telemetry),
       Json(PyDict([body |-> PyDict(
           [cpuType |-> PyStr(s_Intel_raw), cpuFrequencyMHz |-> PyInt(2500), cpuModel |-> PyInt(999),
            benchmark |-> PyDict([type |-> PyStr(s_aesCtr), keySize |-> PyInt(256),
                                  encryptSizeMB |-> PyInt(8), encryptTimeMs |-> PyInt(5)])])])),
       InvocationLine(EmptyDict,
           [cpuType |-> PyStr(<<>>),
            benchmark |-> PyDict([type |-> PyStr(s_gzip), compressSizeMB |-> PyInt(8)])]),
       InvocationLine(HeaderAll,
           [cpuFrequencyMHz |-> PyNone,
            benchmark |-> PyDict([type |-> PyStr(s_sha256), hashSizeMB |-> PyInt(8),
                                  hashTimeMs |-> PyInt(9), matrixSize |-> PyInt(1)])]),
       InvocationLine(HeaderAll,
           [cpuType |-> PyStr(s_xAMDx), cpuFrequencyMHz |-> PyInt(2250), cpuModel |-> PyInt(17),
            benchmark |-> PyDict([type |-> PyStr(s_json), jsonTimeMs |-> PyInt(4)])]),
       InvocationLine(HeaderAll,
           [cpuType |-> PyStr(s_AMD_EPYC), cpuFrequencyMHz |-> PyInt(2300),
            benchmark |-> PyDict([type |-> PyStr(<<"f","f","t">>), matrixSize |-> PyInt(64),
                                  jsonTimeMs |-> PyInt(4)])]),
       InvocationLine(HeaderAll,
           [cpuType |-> PyStr(s_AMD_EPYC), cpuFrequencyMHz |-> PyStr(<<"2","6","5","0">>)]),
       InvocationLine(HeaderAll,
           [cpuType |-> PyNone, benchmark |-> PyDict([type |-> PyStr(s_gemm)])]),
       Json(PyDict([header |-> PyNone, body |-> PyDict(
           [cpuType |-> PyStr(<<"X","e","o","n">>), benchmark |-> PyDict([type |-> PyStr(s_gemm)])])])),
       InvocationLine(HeaderAll,
           [cpuType |-> PyStr(<<"X","e","o","n">>), benchmark |-> PyInt(5)]) >>

file_y_log == <<"y",".","l","o","g">>
file_notes == <<"y",".","t","x","t">>

\* One (root, file) of the walk, with the lines of the file
Entry(root, file, content) == [root |-> root, file |-> file, content |-> content]

\* The lines of a log file: a metadata line and the invocation lines chosen by
\* the indices ls
Content(m, ls) == <<MetaLines[m]>> \o [k \in 1..Len(ls) |-> InvocationLines[ls[k]]]

IndexSeqs(n, max) == UNION {[1..k -> 1..n] : k \in 0..max}

InitLocals ==
    /\ idx = 0
    /\ pc = "walk"
    /\ lines = <<>>
    /\ i = 0
    /\ timestamp = PyNone /\ provider = PyNone /\ region = PyNone /\ memory = PyNone
    /\ function = PyNone /\ parallel = PyNone /\ iterations = PyNone /\ retries = PyNone
    /\ records = <<>>
    /\ cpu_field = PyNone
    /\ all_records = <<>>
    /\ table = <<>>
    /\ exception = "none"
    /\ stdout = <<>>

NoTable ==
    /\ df = <<>>
    /\ group_on_timestamp = FALSE
    /\ benchmark = ""
    /\ remove_cold = FALSE
    /\ result = <<>>
    /\ called = "none"

\* A directory with one log file: empty, or any metadata line followed by up
\* to MaxLines invocation lines (a failing metadata line by at most one)
Init ==
    /\ \/ dir = <<Entry(<<"root", "run1">>, file_y_log, <<>>)>>
       \/ \E m \in 1..Len(MetaLines) :
          \E ls \in IndexSeqs(Len(InvocationLines),
                              IF m <= Len(ValidMetaLines) THEN MaxLines ELSE 1) :
              dir = <<Entry(<<"root", "run1">>, file_y_log, Content(m, ls))>>
    /\ InitLocals
    /\ NoTable

Spec == Init /\ [][Next]_vars

----------------------------------------------------------------------------
(* SpecCpu: one log file of provider aws, gcp or azure with one invocation   *)
(* line, over every combination of cpuType, cpuFrequencyMHz and cpuModel     *)
(* below                                                                     *)

Absent == [has |-> FALSE, v |-> PyNone]
Present(v) == [has |-> TRUE, v |-> v]

CpuTypes ==
    << Absent, Present(PyNone), Present(PyStr(<<>>)), Present(PyStr(s_AMD_EPYC)),
       Present(PyStr(s_xAMDx)), Present(PyStr(<<"A","M"," ","D">>)), Present(PyStr(<<"a","m","d"," ","e","p","y","c">>)),
       Present(PyStr(<<"X","e","o","n">>)) >>

Frequencies ==
    << Absent, Present(PyNone), Present(PyInt(0)), Present(PyBool(TRUE)),
       Present(PyInt(2239)), Present(PyInt(2240)), Present(PyInt(2250)), Present(PyInt(2260)),
       Present(PyInt(2261)), Present(PyInt(2300)), Present(PyInt(2639)), Present(PyInt(2640)),
       Present(PyInt(2650)), Present(PyInt(2660)), Present(PyInt(2661)),
       Present(PyStr(<<"2","6","5","0">>)), Present(PyStr(<<>>)) >>

CpuModels ==
    << Absent, Present(PyNone), Present(PyStr(<<"1">>)), Present(PyStr(<<"1","7">>)), Present(PyStr(<<"8","5">>)),
       Present(PyStr(<<"1","0","6">>)), Present(PyStr(<<"1","4","3">>)), Present(PyStr(<<"1","7","3">>)), Present(PyInt(85)),
       Present(PyInt(999)), Present(PyStr(<<"9","9","9">>)), Present(PyStr(<<"8">>)) >>

CpuBody(c, f, m) ==
    LET keys == (IF c.has THEN {"cpuType"} ELSE {})
                \cup (IF f.has THEN {"cpuFrequencyMHz"} ELSE {})
                \cup (IF m.has THEN {"cpuModel"} ELSE {}) IN
    [k \in keys |-> CASE k = "cpuType" -> c.v
                      [] k = "cpuFrequencyMHz" -> f.v
                      [] OTHER -> m.v]

InitCpu ==
    /\ \E p \in 2..4 : \E c \in 1..Len(CpuTypes) :
       \E f \in 1..Len(Frequencies) : \E m \in 1..Len(CpuModels) :
           dir = <<Entry(<<"root", "run1">>, file_y_log,
                         <<ValidMetaLines[p],
                           InvocationLine(HeaderAll,
                                          CpuBody(CpuTypes[c], Frequencies[f], CpuModels[m]))>>)>>
    /\ InitLocals
    /\ NoTable

SpecCpu == InitCpu /\ [][Next]_vars

----------------------------------------------------------------------------
(* SpecDir: a walk of up to MaxFiles entries; an entry is a log file with a  *)
(* good, an undecodable or a timestamp-less metadata line and up to          *)
(* MaxDirLines invocation lines, an empty log file, a file under logs/ or a  *)
(* file without the .log suffix                                              *)

DirMetaLines == <<2, Len(ValidMetaLines) + 1, Len(ValidMetaLines) + 3>>
DirInvocationLines == <<1, 5>>

DirContents ==
    {<<>>} \cup
    {Content(DirMetaLines[m], [k \in DOMAIN ls |-> DirInvocationLines[ls[k]]]) :
        m \in 1..Len(DirMetaLines), ls \in IndexSeqs(Len(DirInvocationLines), MaxDirLines)}

DirEntries ==
    {Entry(<<"root", "run1">>, file_y_log, c) : c \in DirContents}
    \cup {Entry(<<"root", "logs">>, file_y_log, Content(2, <<5>>)),
          Entry(<<"root", "run1">>, file_notes, Content(2, <<5>>))}

InitDir ==
    /\ \E n \in 0..MaxFiles : dir \in [1..n -> DirEntries]
    /\ InitLocals
    /\ NoTable

SpecDir == InitDir /\ [][Next]_vars

----------------------------------------------------------------------------
(* The tables: a DataFrame is the sequence of its rows, a row a function from *)
(* "index" (its label in the DataFrame's index) and the column names to the   *)
(* values; a missing number is NaN                                            *)

\* Lines 157-164
metric_for_benchmark(benchmark_type) ==
    CASE benchmark_type = "gemm" -> "multiplication_time_ms"
      [] benchmark_type = "aesCtr" -> "encrypt_time_ms"
      [] benchmark_type = "gzip" -> "compress_time_ms"
      [] benchmark_type = "sha256" -> "hash_time_ms"
      [] benchmark_type = "json" -> "json_time_ms"
      [] OTHER -> "runtime_ms"

IsNumber(v) == v.t = "int"

\* The numbers of a series in ascending order
RECURSIVE Sorted(_)
Sorted(series) ==
    IF series = <<>> THEN <<>>
    ELSE LET k == CHOOSE k \in 1..Len(series) :
                      \A j \in 1..Len(series) : series[k].n <= series[j].n
         IN <<series[k].n>> \o Sorted(SubSeq(series, 1, k - 1) \o SubSeq(series, k + 1, Len(series)))

\* Line 176: series.quantile(0.99), times 100 so that it stays an integer.
\* The NaN of the series are left out; the quantile is the value at position
\* 0.99 * (n - 1) of the sorted numbers, linearly interpolated between its two
\* neighbours; it is NaN when the series has no number.
quantile_99(series) ==
    LET numbers == Sorted(SelectSeq(series, IsNumber))
        n == Len(numbers)
        lo == (99 * (n - 1)) \div 100
        frac == (99 * (n - 1)) % 100
    IN  IF n = 0 THEN PyNaN
        ELSE IF frac = 0 THEN PyInt(100 * numbers[lo + 1])
        ELSE PyInt(100 * numbers[lo + 1] + frac * (numbers[lo + 2] - numbers[lo + 1]))

\* (mutant) the rows at the quantile itself are dropped too
trim_outliers_strict(series) ==
    LET high == quantile_99(series) IN
    [k \in 1..Len(series) |->
        IsNumber(series[k]) /\ IsNumber(high) /\ 100 * series[k].n < high.n]

\* Lines 175-177: series <= high, False where either side is NaN
trim_outliers(series) ==
    LET high == quantile_99(series) IN
    [k \in 1..Len(series) |->
        IsNumber(series[k]) /\ IsNumber(high) /\ 100 * series[k].n <= high.n]

\* Lines 179-181
group_by(on_timestamp) == IF on_timestamp THEN <<"cpu_type", "timestamp">> ELSE <<"cpu_type">>

\* The key of a row under the columns by
KeyOf(row, by) == [k \in 1..Len(by) |-> row[by[k]]]

\* The positions of the rows of frame that have the key of row k, in order
RECURSIVE Positions(_, _, _, _)
Positions(frame, by, key, from) ==
    IF from > Len(frame) THEN <<>>
    ELSE (IF KeyOf(frame[from], by) = key THEN <<from>> ELSE <<>>)
         \o Positions(frame, by, key, from + 1)

\* Line 183: df.groupby(by)[metric].transform(f): f is applied to the metric
\* values of each group and every row gets the entry of its group's result
\* that stands at the row's place in the group
groupby_transform(frame, by, metric, k) ==
    LET members == Positions(frame, by, KeyOf(frame[k], by), 1)
        series == [j \in 1..Len(members) |-> frame[members[j]][metric]]
        place == CHOOSE j \in 1..Len(members) : members[j] = k
    IN  trim_outliers(series)[place]

\* df[mask]: the rows whose entry of mask is True, in order
RECURSIVE Masked(_, _, _)
Masked(frame, mask, from) ==
    IF from > Len(frame) THEN <<>>
    ELSE (IF mask[from] THEN <<frame[from]>> ELSE <<>>) \o Masked(frame, mask, from + 1)

\* Lines 173-187
trim_on_benchmark(frame, on_timestamp, benchmark_type) ==
    LET metric == metric_for_benchmark(benchmark_type)
        mask == [k \in 1..Len(frame) |->
                    groupby_transform(frame, group_by(on_timestamp), metric, k)]
    IN  Masked(frame, mask, 1)

\* (mutant) four invocations or more
full_lifecycle_at_least(group_len) == group_len >= 4

\* Line 203: len(group) == 4
full_lifecycle(group_len) == group_len = 4

\* Lines 199-204: the instance ids of the groups of four rows; groupby leaves
\* out the rows whose key is None
valid_ids(frame) ==
    {frame[k].instance_id : k \in {j \in 1..Len(frame) :
        /\ frame[j].instance_id # PyNone
        /\ full_lifecycle(Cardinality({h \in 1..Len(frame) :
                                          frame[h].instance_id = frame[j].instance_id}))}}

\* Line 208: subset["invocation_count"] > 1, False for NaN
warm(row) == IsNumber(row.invocation_count) /\ row.invocation_count.n > 1

\* Lines 197-210
filter_full_lifecycle(frame, cold) ==
    LET ids == valid_ids(frame)
        subset == Masked(frame, [k \in 1..Len(frame) |-> frame[k].instance_id \in ids], 1)
    IN  IF cold THEN Masked(subset, [k \in 1..Len(subset) |-> warm(subset[k])], 1)
        ELSE subset

\* The call of trim_on_benchmark
TrimOnBenchmark ==
    /\ called = "none"
    /\ result' = trim_on_benchmark(df, group_on_timestamp, benchmark)
    /\ called' = "trim"
    /\ UNCHANGED <<df, group_on_timestamp, benchmark, remove_cold>>
    /\ UNCHANGED parseVars

\* The call of filter_full_lifecycle
FilterFullLifecycle ==
    /\ called = "none"
    /\ result' = filter_full_lifecycle(df, remove_cold)
    /\ called' = "lifecycle"
    /\ UNCHANGED <<df, group_on_timestamp, benchmark, remove_cold>>
    /\ UNCHANGED parseVars

NoWalk == dir = <<>> /\ InitLocals

\* The rows a table handed to trim_on_benchmark is made of
cpu_A == PyStr(<<"A">>)
cpu_B == PyStr(<<"B">>)
TrimMetrics ==
    << [multiplication_time_ms |-> PyInt(1), runtime_ms |-> PyInt(2)],
       [multiplication_time_ms |-> PyInt(2), runtime_ms |-> PyInt(1)],
       [multiplication_time_ms |-> PyNaN, runtime_ms |-> PyInt(1)] >>
TrimRow(index, cpu, day, m) ==
    [index |-> index, cpu_type |-> cpu, timestamp |-> PyDatetime(day),
     multiplication_time_ms |-> TrimMetrics[m].multiplication_time_ms,
     runtime_ms |-> TrimMetrics[m].runtime_ms]

InitTrim ==
    /\ \E n \in 0..MaxTrimRows :
       \E cpus \in [1..n -> {cpu_A, cpu_B}] : \E days \in [1..n -> 1..2] :
       \E ms \in [1..n -> 1..Len(TrimMetrics)] :
           df = [k \in 1..n |-> TrimRow(k - 1, cpus[k], days[k], ms[k])]
    /\ group_on_timestamp \in BOOLEAN
    /\ benchmark \in {"gemm", "fft"}
    /\ remove_cold = FALSE
    /\ result = <<>>
    /\ called = "none"
    /\ NoWalk

NextTrim == TrimOnBenchmark

SpecTrim == InitTrim /\ [][NextTrim]_vars

\* The rows a table handed to filter_full_lifecycle is made of
LifeRows ==
    << [instance_id |-> cpu_A, invocation_count |-> PyInt(1)],
       [instance_id |-> cpu_A, invocation_count |-> PyInt(2)],
       [instance_id |-> cpu_A, invocation_count |-> PyNaN],
       [instance_id |-> cpu_B, invocation_count |-> PyInt(1)],
       [instance_id |-> cpu_B, invocation_count |-> PyInt(2)],
       [instance_id |-> PyNone, invocation_count |-> PyInt(2)] >>
LifeRow(index, r) ==
    [index |-> index, instance_id |-> LifeRows[r].instance_id,
     invocation_count |-> LifeRows[r].invocation_count]

InitLifecycle ==
    /\ \E n \in 0..MaxLifeRows : \E rs \in [1..n -> 1..Len(LifeRows)] :
           df = [k \in 1..n |-> LifeRow(k - 1, rs[k])]
    /\ remove_cold \in BOOLEAN
    /\ group_on_timestamp = FALSE
    /\ benchmark = ""
    /\ result = <<>>
    /\ called = "none"
    /\ NoWalk

NextLifecycle == FilterFullLifecycle

SpecLifecycle == InitLifecycle /\ [][NextLifecycle]_vars

----------------------------------------------------------------------------
(* Properties of parse_log_file and load_records_from_directory *)

Last(q) == q[Len(q)]

\* The records of the lines of ls that yield one, in the order of ls
RECURSIVE ValidRecords(_, _)
ValidRecords(m, ls) ==
    IF ls = <<>> THEN <<>>
    ELSE (IF parse_line(m, Head(ls), PyNone).exc = "none"
          THEN <<parse_line(m, Head(ls), PyNone).record>> ELSE <<>>)
         \o ValidRecords(m, Tail(ls))

\* The metadata line was parsed: the loop over lines[1:] is reached
MetadataParsed == i >= 1

\* The line just consumed by the loop, and whether it yielded a record
LineConsumed == pc \in {"loop", "return"} /\ i >= 2
LastLine == lines[i]
LastYielded == LineConsumed /\ parse_line(Locals, LastLine, PyNone).exc = "none"
LastBody == LastLine.v.d.body
LastBenchmark == Get(LastBody, "benchmark", EmptyDict)
LastHeader == Get(LastLine.v, "header", EmptyDict)

HasBody(l) == l.json /\ l.v.t = "dict" /\ "body" \in DOMAIN l.v.d /\ l.v.d.body.t = "dict"

\* An invocation line as the data model describes it: a JSON object whose body
\* is an object with a string cpuType (or none), a numeric or null
\* cpuFrequencyMHz (or none) and an object benchmark (or none)
WellFormedBody(l) ==
    /\ HasBody(l)
    /\ LET body == l.v.d.body IN
        /\ "cpuType" \in DOMAIN body.d => body.d.cpuType.t = "str"
        /\ "cpuFrequencyMHz" \in DOMAIN body.d => body.d.cpuFrequencyMHz.t \in {"int", "None"}
        /\ "benchmark" \in DOMAIN body.d => body.d.benchmark.t = "dict"
WellFormedHeader(l) == "header" \in DOMAIN l.v.d => l.v.d.header.t = "dict"

\* C1 (as claimed): no exception leaves parse_log_file, and a file whose
\* metadata line cannot be parsed (no JSON, no usable timestamp, no numeric
\* memorySize, ...) returns no records.
C1_MetadataFailureReturnsEmpty ==
    /\ exception = "none"
    /\ (pc \in {"return", "raised"} /\ lines # <<>> /\ parse_metadata(lines[1]).exc # "none")
        => (pc = "return" /\ records = <<>>)

\* C3: once the metadata line is parsed, the records are exactly those of the
\* consumed lines that yield one, in line order; a line that is no JSON yields
\* none and a well-formed line yields one, whatever the lines around it are;
\* no exception of a line leaves the loop; no invocation lines, no records.
C3_OneRecordPerValidLine ==
    MetadataParsed =>
        /\ exception = "none"
        /\ records = ValidRecords(Locals, SubSeq(lines, 2, i))
        /\ Len(records) = Cardinality({k \in 2..i : parse_line(Locals, lines[k], PyNone).exc = "none"})
        /\ \A k \in 2..i :
            /\ ~lines[k].json => parse_line(Locals, lines[k], PyNone).exc # "none"
            /\ (WellFormedBody(lines[k]) /\ WellFormedHeader(lines[k]))
                => parse_line(Locals, lines[k], PyNone).exc = "none"
        /\ (pc = "return" /\ Len(lines) = 1) => records = <<>>

\* C3 witness: a line that is no JSON, skipped, then a line that yields a record
C3_Witness ==
    /\ pc = "return" /\ Len(lines) = 3
    /\ ~lines[2].json
    /\ parse_line(Locals, lines[3], PyNone).exc = "none"
    /\ Len(records) = 1

\* C4 (as claimed): every record's provider and cpu_type are non-empty strings.
C4_ProviderAndCpuTypeNonEmpty ==
    \A k \in 1..Len(records) :
        /\ records[k].provider.t = "str" /\ records[k].provider.s # <<>>
        /\ records[k].cpu_type.t = "str" /\ records[k].cpu_type.s # <<>>

\* C4 (amended): every record's provider is the lower-cased provider of the
\* metadata line, "unknown" when it names none, so it is non-empty unless the
\* metadata line gives the empty string; its cpu_type is a string, non-empty
\* when the provider is gcp or body.cpuType is absent or a non-empty string.
C4_ProviderAndCpuTypeOfRecord ==
    /\ \A k \in 1..Len(records) :
        LET meta == lines[1].v IN
        /\ records[k].provider.t = "str" /\ records[k].cpu_type.t = "str"
        /\ "provider" \notin DOMAIN meta.d => records[k].provider = PyStr(s_unknown)
        /\ "provider" \in DOMAIN meta.d => records[k].provider = PyStr(lower(meta.d.provider.s))
        /\ ("provider" \in DOMAIN meta.d => meta.d.provider.s # <<>>)
            => records[k].provider.s # <<>>
    /\ LastYielded =>
        ((\/ provider = PyStr(s_gcp)
          \/ "cpuType" \notin DOMAIN LastBody.d
          \/ LastBody.d.cpuType.s # <<>>)
         => Last(records).cpu_type.s # <<>>)

\* C4 witness: a record of a file whose metadata line names no provider
C4_Witness ==
    /\ LastYielded
    /\ "provider" \notin DOMAIN lines[1].v.d
    /\ "cpuType" \notin DOMAIN LastBody.d
    /\ Last(records).provider = PyStr(s_unknown)
    /\ Last(records).cpu_type = PyStr(s_unknown)

CommonKeys ==
    {"timestamp", "provider", "region", "function", "memory_size_mb", "parallel_requests",
     "iterations_per_benchmark", "retries", "cpu_type", "cpu_model_number", "runtime_ms",
     "user_runtime_ms", "framework_runtime_ms", "container_id", "new_container",
     "invocation_count", "instance_id", "uuid", "benchmark_type", "flags", "cpu_frequency"}

\* The fields of each benchmark type, each with the entry of benchmark it is
\* taken from
BenchmarkFields ==
    << [type |-> s_gemm, field |-> "matrix_size", from |-> "matrixSize"],
       [type |-> s_gemm, field |-> "multiplication_time_ms", from |-> "multiplicationTimeMs"],
       [type |-> s_aesCtr, field |-> "key_size", from |-> "keySize"],
       [type |-> s_aesCtr, field |-> "encrypt_size_mb", from |-> "encryptSizeMB"],
       [type |-> s_aesCtr, field |-> "encrypt_time_ms", from |-> "encryptTimeMs"],
       [type |-> s_gzip, field |-> "compress_size_mb", from |-> "compressSizeMB"],
       [type |-> s_gzip, field |-> "compress_time_ms", from |-> "compressTimeMS"],
       [type |-> s_sha256, field |-> "hash_size_mb", from |-> "hashSizeMB"],
       [type |-> s_sha256, field |-> "hash_time_ms", from |-> "hashTimeMs"],
       [type |-> s_json, field |-> "json_time_ms", from |-> "jsonTimeMs"] >>
SpecificKeys == {BenchmarkFields[k].field : k \in 1..Len(BenchmarkFields)}
FieldsOf(type) ==
    {BenchmarkFields[k].field : k \in {j \in 1..Len(BenchmarkFields) :
                                          PyStr(BenchmarkFields[j].type) = type}}

\* C7: a record has the fields of its benchmark type and of no other type,
\* none at all for a type that is not one of the five; each is the entry of
\* benchmark it is named after (None when absent) and every common field is
\* there with the value it was given.
C7_BenchmarkFieldsIffType ==
    /\ \A k \in 1..Len(records) :
        /\ CommonKeys \subseteq DOMAIN records[k]
        /\ DOMAIN records[k] \cap SpecificKeys = FieldsOf(records[k].benchmark_type)
    /\ LastYielded =>
        /\ \A c \in CommonKeys :
            Last(records)[c] = common_fields(Locals, LastBody, LastBenchmark, cpu_field)[c]
        /\ \A k \in 1..Len(BenchmarkFields) :
            BenchmarkFields[k].field \in DOMAIN Last(records)
                => Last(records)[BenchmarkFields[k].field]
                       = Get(LastBenchmark, BenchmarkFields[k].from, PyNone)

\* C7 witness: a gzip record, then a record of a type that is none of the five
C7_Witness ==
    /\ Len(records) = 2
    /\ records[1].benchmark_type = PyStr(s_gzip)
    /\ "compress_time_ms" \in DOMAIN records[1]
    /\ records[2].benchmark_type = PyStr(<<"f","f","t">>)
    /\ DOMAIN records[2] \cap SpecificKeys = {}

KnownProviders == {PyStr(s_azure), PyStr(s_gcp), PyStr(s_aws), PyStr(s_alibaba)}
RequestIds ==
    << [provider |-> s_azure, field |-> "azure_invocation_id", from |-> "azure-invocation-id"],
       [provider |-> s_gcp, field |-> "gcp_execution_id", from |-> "function-execution-id"],
       [provider |-> s_aws, field |-> "aws_request_id", from |-> "aws-request-id"],
       [provider |-> s_alibaba, field |-> "alibaba_request_id", from |-> "ali-request-id"] >>
RequestIdKeys == {RequestIds[k].field : k \in 1..Len(RequestIds)}

\* C10: a record of one of the four providers has the request-id field of that
\* provider and no other, holding the header's entry or "unknown"; a record of
\* any other provider has none, and the line yields its record all the same
\* (whatever its header is).
C10_RequestIdOfProvider ==
    /\ \A k \in 1..Len(records) : \A j \in 1..Len(RequestIds) :
        RequestIds[j].field \in DOMAIN records[k]
            <=> records[k].provider = PyStr(RequestIds[j].provider)
    /\ LastYielded => \A j \in 1..Len(RequestIds) :
        provider = PyStr(RequestIds[j].provider)
            => Last(records)[RequestIds[j].field]
                   = IF RequestIds[j].from \in DOMAIN LastHeader.d
                     THEN LastHeader.d[RequestIds[j].from] ELSE PyStr(s_unknown)
    /\ (LineConsumed /\ provider \notin KnownProviders /\ WellFormedBody(LastLine))
        => /\ LastYielded
           /\ DOMAIN Last(records) \cap RequestIdKeys = {}

\* C10 witness: two aws records, the id of the first from its header, the
\* second, without a header, with "unknown"
C10_Witness ==
    /\ Len(records) = 2
    /\ provider = PyStr(s_aws)
    /\ records[1].aws_request_id = PyStr(<<"a","w","1">>)
    /\ records[2].aws_request_id = PyStr(s_unknown)

----------------------------------------------------------------------------
(* Properties of the CPU label, checked under SpecCpu *)

HasAMD(str_) ==
    \E k \in 1..(Len(str_) - 2) : str_[k] = "A" /\ str_[k + 1] = "M" /\ str_[k + 2] = "D"

\* An aws line whose body.cpuType is a string containing "AMD" was consumed
AwsAmdLine ==
    /\ LineConsumed
    /\ provider = PyStr(s_aws)
    /\ "cpuType" \in DOMAIN LastBody.d
    /\ LastBody.d.cpuType.t = "str"
    /\ HasAMD(LastBody.d.cpuType.s)

HasFrequency == "cpuFrequencyMHz" \in DOMAIN LastBody.d
Frequency == LastBody.d.cpuFrequencyMHz
InBand(lo, hi) == HasFrequency /\ Frequency.t = "int" /\ Frequency.n >= lo /\ Frequency.n <= hi

label_265 == <<"A","M","D"," ","E","P","Y","C"," ","2",".","6","5","G","H","z">>
label_225 == <<"A","M","D"," ","E","P","Y","C"," ","2",".","2","5","G","H","z">>
label_unknown == <<"A","M","D"," ","E","P","Y","C"," ","u","n","k","n","o","w","n">>

\* C5 (as claimed): on aws with "AMD" in cpuType the label is that of the
\* band of cpuFrequencyMHz and "AMD EPYC unknown" for any other or missing
\* value, and the line yields a record in each of these cases.
C5_AmdBandsAnyOtherValue ==
    AwsAmdLine =>
        /\ LastYielded
        /\ InBand(2640, 2660) => cpu_field = PyStr(label_265)
        /\ InBand(2240, 2260) => cpu_field = PyStr(label_225)
        /\ (~InBand(2640, 2660) /\ ~InBand(2240, 2260)) => cpu_field = PyStr(label_unknown)

\* The values of cpuFrequencyMHz that the comparison with 2640 takes: numbers
\* (True is 1), and the falsy values, which are never compared
Comparable(v) == v.t \in {"int", "bool"} \/ ~Truthy(v)

\* C5 (amended): the same, for a cpuFrequencyMHz that is missing, a number or
\* falsy (null, 0, ""); any other value (a non-empty string) makes the line be
\* skipped, without a record.
C5_AmdBandsNumericOrMissing ==
    AwsAmdLine =>
        /\ (~HasFrequency \/ Comparable(Frequency)) =>
            /\ LastYielded
            /\ InBand(2640, 2660) => cpu_field = PyStr(label_265)
            /\ InBand(2240, 2260) => cpu_field = PyStr(label_225)
            /\ (~InBand(2640, 2660) /\ ~InBand(2240, 2260)) => cpu_field = PyStr(label_unknown)
        /\ (HasFrequency /\ ~Comparable(Frequency)) => ~LastYielded /\ records = <<>>

\* C5 witness: 2661 MHz, just above the upper band: a record, labelled unknown
C5_Witness ==
    /\ AwsAmdLine
    /\ HasFrequency /\ Frequency = PyInt(2661)
    /\ Len(records) = 1
    /\ cpu_field = PyStr(label_unknown)

\* The label of each cpuModel of CpuModels, in the same order
GcpLabels ==
    << <<"M","o","d","e","l"," ","u","n","k","n","o","w","n"," ","(","U","n","k","n","o","w","n",")">>, <<"M","o","d","e","l"," ","N","o","n","e"," ","(","U","n","k","n","o","w","n",")">>, <<"M","o","d","e","l"," ","1"," ","(","A","M","D",")">>, <<"M","o","d","e","l"," ","1","7"," ","(","A","M","D",")">>,
       <<"M","o","d","e","l"," ","8","5"," ","(","I","n","t","e","l",")">>, <<"M","o","d","e","l"," ","1","0","6"," ","(","I","n","t","e","l",")">>, <<"M","o","d","e","l"," ","1","4","3"," ","(","I","n","t","e","l",")">>, <<"M","o","d","e","l"," ","1","7","3"," ","(","I","n","t","e","l",")">>,
       <<"M","o","d","e","l"," ","8","5"," ","(","I","n","t","e","l",")">>, <<"M","o","d","e","l"," ","9","9","9"," ","(","U","n","k","n","o","w","n",")">>, <<"M","o","d","e","l"," ","9","9","9"," ","(","U","n","k","n","o","w","n",")">>, <<"M","o","d","e","l"," ","8"," ","(","U","n","k","n","o","w","n",")">> >>

\* The cpuModel of the consumed line is the j-th of CpuModels
LastModelIs(j) ==
    IF CpuModels[j].has
    THEN "cpuModel" \in DOMAIN LastBody.d /\ LastBody.d.cpuModel = CpuModels[j].v
    ELSE "cpuModel" \notin DOMAIN LastBody.d

\* C6: on gcp the label is that of the table for body.cpuModel, "Model {model}
\* (Unknown)" for a model the table does not have, whatever cpuType and
\* cpuFrequencyMHz are (a null cpuType, a string frequency); the AMD bands are
\* not applied to it, and the line yields a record with this label.
C6_GcpLabelFromModelOnly ==
    (LineConsumed /\ provider = PyStr(s_gcp)) =>
        /\ LastYielded
        /\ \A j \in 1..Len(CpuModels) : LastModelIs(j) => cpu_field = PyStr(GcpLabels[j])
        /\ Last(records).cpu_type = PyStr(shorten_cpu_name(cpu_field.s))

\* C6 witness: model "1", labelled AMD, with an AMD cpuType at 2650 MHz
C6_Witness ==
    /\ LineConsumed /\ provider = PyStr(s_gcp)
    /\ LastModelIs(3)
    /\ "cpuType" \in DOMAIN LastBody.d /\ LastBody.d.cpuType = PyStr(s_AMD_EPYC)
    /\ HasFrequency /\ Frequency = PyInt(2650)
    /\ cpu_field = PyStr(GcpLabels[3])
    /\ Len(records) = 1

----------------------------------------------------------------------------
(* Properties of the walk, checked under SpecDir *)

Visited(e) == ~in_logs(e.root) /\ endswith_log(e.file)

\* The records a log file is to contribute: none when it is empty or its
\* metadata line cannot be parsed, else those of its valid lines
Extraction(content) ==
    IF content = <<>> THEN <<>>
    ELSE IF parse_metadata(content[1]).exc # "none" THEN <<>>
    ELSE ValidRecords(parse_metadata(content[1]), Tail(content))

RECURSIVE Concatenation(_)
Concatenation(entries) ==
    IF entries = <<>> THEN <<>>
    ELSE Extraction(Head(entries).content) \o Concatenation(Tail(entries))

\* C2 (as claimed): the run goes on after a file whose metadata line cannot be
\* parsed, and the table is the concatenation of the files' extractions.
C2_TableIsConcatenation ==
    pc \in {"done", "raised"} =>
        /\ pc = "done"
        /\ table = DataFrame(Concatenation(SelectSeq(dir, Visited)))

----------------------------------------------------------------------------
(* Properties of the table filters *)

Kept(k) == \E j \in 1..Len(result) : result[j].index = df[k].index

\* The rows of df in the group of row k: same cpu_type, and same timestamp
\* when group_on_timestamp is set
SameGroup(k, j) ==
    /\ df[j].cpu_type = df[k].cpu_type
    /\ group_on_timestamp => df[j].timestamp = df[k].timestamp
RECURSIVE GroupOf(_, _)
GroupOf(k, from) ==
    IF from > Len(df) THEN <<>>
    ELSE (IF SameGroup(k, from) THEN <<df[from]>> ELSE <<>>) \o GroupOf(k, from + 1)
RECURSIVE Column(_, _)
Column(frame, c) == IF frame = <<>> THEN <<>> ELSE <<Head(frame)[c]>> \o Column(Tail(frame), c)

IsSubsequence(small, big) ==
    \E f \in [1..Len(small) -> 1..Len(big)] :
        /\ \A a, b \in 1..Len(small) : a < b => f[a] < f[b]
        /\ \A a \in 1..Len(small) : small[a] = big[f[a]]

\* C9: a row is kept exactly when its metric value is at most the 99th
\* percentile of the metric values of its own group; it is kept exactly when
\* it would be kept were the table its group alone; the kept rows are rows of
\* df, unchanged.
C9_KeptIffWithinOwnGroupPercentile ==
    called = "trim" =>
        /\ \A k \in 1..Len(df) :
            LET metric == metric_for_benchmark(benchmark)
                high == quantile_99(Column(GroupOf(k, 1), metric))
                alone == trim_on_benchmark(GroupOf(k, 1), group_on_timestamp, benchmark)
            IN  /\ Kept(k) <=> /\ IsNumber(df[k][metric])
                               /\ IsNumber(high)
                               /\ 100 * df[k][metric].n <= high.n
                /\ Kept(k) <=> \E j \in 1..Len(alone) : alone[j].index = df[k].index
        /\ IsSubsequence(result, df)

\* C9 witness: grouped by cpu_type and timestamp, a group of two rows loses
\* its larger value while a row of the same cpu_type on another day, with a
\* still larger value, is kept
C9_Witness ==
    /\ called = "trim" /\ group_on_timestamp /\ benchmark = "gemm"
    /\ Len(df) = 3
    /\ df[1].cpu_type = df[2].cpu_type /\ df[2].cpu_type = df[3].cpu_type
    /\ df[1].timestamp = df[2].timestamp /\ df[3].timestamp # df[1].timestamp
    /\ df[1].multiplication_time_ms = PyInt(1)
    /\ df[2].multiplication_time_ms = PyInt(2)
    /\ df[3].multiplication_time_ms = PyInt(2)
    /\ Kept(1) /\ ~Kept(2) /\ Kept(3)

Occurrences(id) == Cardinality({k \in 1..Len(df) : df[k].instance_id = id})

\* C8 (as claimed): the rows kept are those whose instance_id occurs exactly 4
\* times in df, minus, with remove_cold, those whose invocation_count <= 1.
C8_FourOccurrencesMinusCold ==
    called = "lifecycle" =>
        /\ \A k \in 1..Len(df) :
            Kept(k) <=> /\ Occurrences(df[k].instance_id) = 4
                        /\ remove_cold =>
                            ~(IsNumber(df[k].invocation_count) /\ df[k].invocation_count.n <= 1)
        /\ IsSubsequence(result, df)

\* C8 (amended): the rows kept are those whose instance_id is not null and
\* occurs exactly 4 times in df, of which, with remove_cold, those whose
\* invocation_count > 1 (a row without invocation_count goes as well); the 4
\* are counted in df, before any row is dropped.
C8_FourOccurrencesAndWarm ==
    called = "lifecycle" =>
        /\ \A k \in 1..Len(df) :
            Kept(k) <=> /\ df[k].instance_id # PyNone
                        /\ Occurrences(df[k].instance_id) = 4
                        /\ remove_cold =>
                            (IsNumber(df[k].invocation_count) /\ df[k].invocation_count.n > 1)
        /\ IsSubsequence(result, df)

\* C8 witness: with remove_cold, four rows of one instance and one of another;
\* of the four, the cold one is dropped and the three warm ones are kept,
\* although three are left
C8_Witness ==
    /\ called = "lifecycle" /\ remove_cold
    /\ Len(df) = 5
    /\ Occurrences(cpu_A) = 4 /\ Occurrences(cpu_B) = 1
    /\ Cardinality({k \in 1..5 : df[k].invocation_count = PyInt(1)
                                  /\ df[k].instance_id = cpu_A}) = 1
    /\ Cardinality({k \in 1..5 : df[k].invocation_count = PyInt(2)
                                  /\ df[k].instance_id = cpu_A}) = 3
    /\ Len(result) = 3

====
